---- MODULE Spec2Model ----
(***************************************************************************)
(* Local persistence + cloud reconciliation of the vintage cataloger:      *)
(* the IndexedDB store (services/db.ts), the batch processor and the sync  *)
(* orchestrator (App.tsx) and the Firestore mirror                         *)
(* (services/firestoreSync.ts).                                            *)
(*                                                                         *)
(* Records are TLA+ records whose DOMAIN is the set of properties the      *)
(* JavaScript object carries: an inventory record without an "id" field is *)
(* an object whose id is undefined.  Object stores and cloud collections   *)
(* are functions from the keys present to the stored records.              *)
(***************************************************************************)
EXTENDS Integers, Sequences, FiniteSets, TLC

(* ------------------------------ bounds -------------------------------- *)
NumHashes   == 2      \* distinct image fingerprints the user photographs
MaxImages   == 3      \* images handed to processBatch in one behaviour, all calls together
MaxBatches  == 2      \* processBatch calls in one behaviour
MaxRestarts == 1      \* app restarts in one behaviour
MaxPushRuns == 2      \* full pushes counted before the count saturates
MaxNetChanges == 2    \* changes of the network condition in one behaviour
MaxSignIns == 2       \* sign-ins in one behaviour
MaxStored == 51       \* batches, and inventory entries, a store holds before the first sign-in
HugeText == 1048676   \* bytes of an oversized text field (1 MiB + 100)
MaxEditImages == 1    \* images at hand in the behaviours of the item editor
MaxSyncImages == 2    \* images at hand in the behaviours of the cloud sync

Hashes    == 1..NumHashes
FileLists(n) == UNION {[1..m -> Hashes] : m \in 1..n}

VARIABLES
  \* ---- Local Store (IndexedDB, survives restarts)
  batches,          \* object store 'batches', keyed by batch_id
  items,            \* object store 'items', keyed by auto-increment id
  itemKeyGen,       \* key generator of 'items'
  inventory,        \* object store 'inventory', keyed by auto-increment id
  invKeyGen,        \* key generator of 'inventory'
  \* ---- Cloud Mirror (Firestore, per user)
  cloudBatches,     \* users/{uid}/batches/{batch_id}
  cloudItems,       \* users/{uid}/items/{itemId}
  cloudInv,         \* users/{uid}/inventory/{image_hash}
  net,              \* what a remote request meets: "up", "down", "denied"
  \* ---- environment
  now,              \* the clock read by Date.now() / new Date()
  restarts,         \* restarts so far
  supply,           \* images the user has at hand to scan
  netChanges,       \* changes of net so far
  signIns,          \* sign-ins so far
  aiKeys,           \* whether a provider key is configured
  \* ---- App state (React state and module variables, lost on restart)
  user,             \* useAuth().user is set
  processing,       \* App.tsx 'processing'
  isDbInitialized,  \* App.tsx 'isDbInitialized'
  bootDue,          \* the boot effect is scheduled to run
  hasSeenPrompt,    \* sessionStorage 'has_seen_resume_prompt'
  showResumePrompt, \* App.tsx 'showResumePrompt'
  incompleteBatch,  \* App.tsx 'incompleteBatch': <<>> (null) or <<batch>>
  isOfflineMode,    \* firestoreSync.ts 'isOfflineMode'
  \* ---- the processBatch invocation in flight
  pc,               \* "idle", "item", "save", "update", "final"
  runBatch,         \* batchId of the run
  files,            \* filesToProcess, each file given by its fingerprint
  idx,              \* loop variable i
  results,          \* results.length
  seenInBatch,      \* processedHashesInBatch
  cur,              \* locals of the current iteration: <<>> or <<[...]>>
  runUser,          \* the 'user' the run's closure captured
  \* ---- the sign-in sync (loadCloudData) or manual pull (handleForcePull) in flight
  keysLoadedFromCloud, \* App.tsx 'keysLoadedFromCloud'
  syncPc,           \* "idle", "merge", "push", "pullMerge"
  cloudSnap,        \* what loadAllFromCloud has returned so far
  \* ---- observers
  pushRuns,         \* full pushes (syncAllToCloud with data) that issued requests
  race,             \* the DB Concurrency self-test: position, first key, error seen
  lastSync,         \* the last direct syncItemToCloud call: <<>> or <<[...]>>
  \* ---- the IndexedDB database on disk and this instance's initDB
  disk,             \* [version, stores, indexes] of 'vintage-cataloger-db'
  dbPromise,        \* db.ts 'dbPromise': "unset", "pending", "open", "rejected"
  initPc,           \* position of boot/initDB: "idle", "open", "wait", "failed", "delete", "returned", "threw"
  retryCount,       \* initDB's retryCount
  opens,            \* openDB calls of the initDB call in flight
  deletions,        \* deleteDB calls of the initDB call in flight
  stepsRun,         \* migration steps the last upgrade callback ran
  dbError,          \* App.tsx 'dbError'
  \* ---- sibling instances (other tabs) on the same database
  conn,             \* per sibling: "none", "open", "closing", "closed"
  busy,             \* siblings with a transaction in flight
  verchange,        \* siblings with a versionchange event to handle
  inbox,            \* siblings with a FORCE_CLOSE_DB message to handle
  blockedFired,     \* the open request in flight has had its blocked event
  \* ---- the status line and the focus-triggered sync (handleFocus) in flight
  appStatus,        \* App.tsx 'appStatus': "initializing", "syncing", "ready", "error"
  focusLocal,       \* handleFocus 'localBatches': the batch ids getBatches(10) returned
  \* ---- the inventory view (loadInventory) and the updateItem calls in flight
  inventoryShown,   \* App.tsx 'inventory': the ids of the entries listed, in order
  inventoryLastDate,\* App.tsx 'inventoryLastDate': 0 (undefined) or a last_seen
  inventorySort,    \* App.tsx 'inventorySort'
  lastPage,         \* the ids the latest getAllInventory call returned
  updateCalls       \* per updateItem call: its position, arguments and the record it read

storeVars == <<batches, items, itemKeyGen, inventory, invKeyGen>>
cloudVars == <<cloudBatches, cloudItems, cloudInv>>
envVars   == <<net, now, restarts, supply, netChanges, signIns, aiKeys>>
appVars   == <<user, processing, isDbInitialized, bootDue, hasSeenPrompt,
               showResumePrompt, incompleteBatch, isOfflineMode>>
uiVars    == <<user, processing, isDbInitialized, bootDue, hasSeenPrompt,
               showResumePrompt, incompleteBatch>>
runVars   == <<pc, runBatch, files, idx, results, seenInBatch, cur, runUser>>
syncVars  == <<keysLoadedFromCloud, syncPc, cloudSnap>>
obsVars   == <<pushRuns, race, lastSync>>
dbVars    == <<disk, dbPromise, initPc, retryCount, opens, deletions, stepsRun, dbError>>
tabVars   == <<conn, busy, verchange, inbox, blockedFired>>
focusVars == <<appStatus, focusLocal>>
pageVars  == <<inventoryShown, inventoryLastDate, inventorySort, lastPage>>
callVars  == <<updateCalls>>
engineVars == <<dbVars, tabVars, focusVars, pageVars, callVars>>
vars      == <<storeVars, cloudVars, envVars, appVars, runVars, syncVars, obsVars, engineVars>>

(* ----------------------------- helpers -------------------------------- *)
Put(f, k, v) == [x \in DOMAIN f \cup {k} |-> IF x = k THEN v ELSE f[x]]

\* { ...r, ...u }
Spread(r, u) == [x \in DOMAIN r \cup DOMAIN u |-> IF x \in DOMAIN u THEN u[x] ELSE r[x]]

Has(r, f) == f \in DOMAIN r

MinOf(S) == CHOOSE x \in S : \A y \in S : x <= y

(* --------------------- AI-guess collaborator -------------------------- *)
GuessA == [title |-> "A", type |-> "book", year |-> "1950", notes |-> <<"na">>,
           confidence |-> "90%", raw_metadata |-> [bytes |-> 40, fallback_mode |-> FALSE]]

\* what analyzeImage returns when every provider fails or the timeout fires
\* a fallback guess that carries no fallback mark
generateLocalFallbackUnmarked ==
  [title |-> "Unidentified Item", type |-> "unknown", year |-> "Unknown",
   notes |-> <<"AI Analysis unavailable">>, confidence |-> "10%",
   raw_metadata |-> [bytes |-> 40, fallback_mode |-> FALSE]]

generateLocalFallback ==
  [title |-> "Unidentified Item", type |-> "unknown", year |-> "Unknown",
   notes |-> <<"AI Analysis unavailable">>, confidence |-> "10%",
   raw_metadata |-> [bytes |-> 40, fallback_mode |-> TRUE]]

\* analyzeImage never rejects for a non-empty image: a provider's guess or the
\* fallback; without a key every provider is skipped. The server queue a
\* signed-in run tries first is taken to give no result (waitForItem times out).
analyzeImage(keys) == IF keys THEN {GuessA, generateLocalFallback} ELSE {generateLocalFallback}

(* ------------------------- Local Store (db.ts) ------------------------ *)
\* a save that counts one more processed image each time it overwrites a batch
saveBatchCounting(bs, b) ==
  Put(bs, b.batch_id,
      IF b.batch_id \in DOMAIN bs THEN [b EXCEPT !.processed = bs[b.batch_id].processed + 1] ELSE b)

saveBatch(bs, b) == Put(bs, b.batch_id, b)

getIncompleteBatches == {k \in DOMAIN batches : batches[k].status = "processing"}

getBatchItems(its, batchId) == {k \in DOMAIN its : its[k].batch_id = batchId}

\* db.add('items', item): the key generator supplies the id
saveItem(its, gen, item) ==
  [items |-> Put(its, gen + 1, Spread(item, [id |-> gen + 1])), gen |-> gen + 1]

\* db.get + db.put of { ...item, ...updates }
updateItem(its, id, updates) ==
  IF id \in DOMAIN its THEN Put(its, Spread(its[id], updates).id, Spread(its[id], updates))
  ELSE its

\* db.put('inventory', rec) on a store with keyPath 'id', autoIncrement and the
\* unique index 'by-hash': a record that carries an id replaces the record
\* under that id, a record without one gets a generated key; either way the
\* put fails with a ConstraintError when another key holds the same image_hash.
putInventory(inv, gen, rec) ==
  LET key   == IF Has(rec, "id") THEN rec.id ELSE gen + 1
      clash == \E k \in DOMAIN inv : k # key /\ inv[k].image_hash = rec.image_hash
  IN IF clash
     THEN [ok |-> FALSE, inv |-> inv, gen |-> gen]
     ELSE [ok |-> TRUE, inv |-> Put(inv, key, Spread(rec, [id |-> key])),
           gen |-> IF key > gen THEN key ELSE gen]

addToInventory(inv, gen, item) == putInventory(inv, gen, item)

updateInventoryItem(inv, gen, id, updates) ==
  IF id \in DOMAIN inv THEN putInventory(inv, gen, Spread(inv[id], updates))
  ELSE [ok |-> TRUE, inv |-> inv, gen |-> gen]

\* db.getFromIndex('inventory', 'by-hash', hash): <<>> is undefined
findByImageHash(inv, hash) ==
  LET ks == {k \in DOMAIN inv : inv[k].image_hash = hash}
  IN IF ks = {} THEN <<>> ELSE <<inv[MinOf(ks)]>>

(* ---------------------- Cloud Mirror (firestoreSync.ts) --------------- *)
\* a guard that ignores the flag
isFirebaseConfiguredAlways == TRUE

isFirebaseConfigured == ~isOfflineMode

\* handleNetworkError: only a network-classified message flips the flag
handleNetworkError(off) == IF net = "down" THEN TRUE ELSE off

\* a push that does not return to its caller when the write fails
syncBatchToCloudRejecting(b) ==
  /\ isFirebaseConfigured /\ net = "up"
  /\ cloudBatches' = Put(cloudBatches, b.batch_id, b) /\ UNCHANGED isOfflineMode

syncBatchToCloud(b) ==
  IF ~isFirebaseConfigured THEN UNCHANGED <<cloudBatches, isOfflineMode>>
  ELSE IF net = "up"
       THEN cloudBatches' = Put(cloudBatches, b.batch_id, b) /\ UNCHANGED isOfflineMode
       ELSE isOfflineMode' = handleNetworkError(isOfflineMode) /\ UNCHANGED cloudBatches

syncInventoryToCloud(rec) ==
  IF isFirebaseConfigured /\ net = "up"
  THEN cloudInv' = Put(cloudInv, rec.image_hash, rec)
  ELSE UNCHANGED cloudInv

\* bytes the serialized payload of an item takes
BASE_BYTES == 300
payloadBytes(p) ==
  BASE_BYTES + (IF Has(p, "raw_metadata") THEN p.raw_metadata.bytes ELSE 0)
             + (IF Has(p, "saved_comps") THEN p.saved_comps ELSE 0)
             + (IF Has(p, "comps_quote") THEN p.comps_quote ELSE 0)

SAFETY_MARGIN   == 950000
FIRESTORE_LIMIT == 1048576

Without(r, fs) == [x \in DOMAIN r \ fs |-> r[x]]

\* the text of a file name.  A file is known to the model by a number: the
\* files of a run are named after their position ("1", "2", ...), and the
\* numbers above NameBase are files the user has named, NamedFiles[n - NameBase]
NameBase == 100
NamedFiles == << <<"a", ".", "j">>, <<"a", "_", "j">>, <<"a", "j">> >>
fileNameText(f) == IF f > NameBase THEN NamedFiles[f - NameBase] ELSE <<ToString(f)>>

\* `local-${Date.now()}`
batchIdText(b) == <<"l", "o", "c", "a", "l", "-", ToString(b)>>

\* the characters /[^a-zA-Z0-9_-]/ leaves alone; a run of digits is one element
DigitRuns == {ToString(n) : n \in 0..(NameBase - 1)}
IdChars == {"a", "c", "j", "l", "o", "_", "-"} \cup DigitRuns

\* `${batchId}_${filename}`.replace(/[^a-zA-Z0-9_-]/g, '_')
itemId(batchId, filename) ==
  LET raw == batchId \o <<"_">> \o filename
  IN [i \in 1..Len(raw) |-> IF raw[i] \in IdChars THEN raw[i] ELSE "_"]

itemDocId(item) == itemId(batchIdText(item.batch_id), fileNameText(item.filename))

\* the document syncItemToCloud hands to setDoc
itemPayload(item) ==
  LET itemWithoutImage == Without(item, {"image_data"})
  IN IF payloadBytes(itemWithoutImage) > SAFETY_MARGIN
     THEN Spread(Without(itemWithoutImage, {"raw_metadata", "saved_comps"}),
                 [notes |-> <<"Metadata stripped (too large)">>])
     ELSE itemWithoutImage

\* setDoc resolves when the backend is reachable and accepts the document
setDocAccepts(payload) == net = "up" /\ payloadBytes(payload) <= FIRESTORE_LIMIT

syncItemToCloud(item) ==
  IF isFirebaseConfigured /\ setDocAccepts(itemPayload(item))
  THEN cloudItems' = Put(cloudItems, itemDocId(item), itemPayload(item))
  ELSE UNCHANGED cloudItems

NoSnap == [batches |-> <<>>, inventory |-> <<>>]

(* ------------------- the database schema and its migration ------------- *)
DB_VERSION == 5
MAX_RETRIES == 2
NumSiblings == 2
Siblings == 1..NumSiblings

\* the database does not exist (version 0)
EmptyDisk == [version |-> 0, stores |-> {}, indexes |-> {}]

\* step k of the upgrade callback throws: createObjectStore of an existing
\* store (ConstraintError), tx.objectStore of a missing one (NotFoundError)
stepThrows(k, d) ==
  CASE k = 1 -> "batches" \in d.stores \/ "items" \in d.stores
    [] k = 3 -> "items" \notin d.stores
    [] k = 4 -> "inventory" \notin d.stores
    [] OTHER -> FALSE

\* a migration that rebuilds the inventory store in step 4
migrateStepRecreating(k, d) ==
  CASE k = 1 -> [d EXCEPT !.stores = @ \cup {"batches", "items"},
                          !.indexes = @ \cup {<<"batches", "by-date">>, <<"items", "by-batch">>}]
    [] k = 2 -> IF "inventory" \in d.stores THEN d
                ELSE [d EXCEPT !.stores = @ \cup {"inventory"},
                               !.indexes = @ \cup {<<"inventory", "by-hash">>}]
    [] k = 3 -> [d EXCEPT !.indexes = @ \cup {<<"items", "by-hash">>}]
    [] k = 4 -> [d EXCEPT !.indexes = (@ \ {<<"inventory", "by-hash">>}) \cup {<<"inventory", "by-date">>}]
    [] OTHER -> d

\* what step k of the upgrade callback does to the schema
migrateStep(k, d) ==
  CASE k = 1 -> [d EXCEPT !.stores = @ \cup {"batches", "items"},
                          !.indexes = @ \cup {<<"batches", "by-date">>, <<"items", "by-batch">>}]
    [] k = 2 -> IF "inventory" \in d.stores THEN d
                ELSE [d EXCEPT !.stores = @ \cup {"inventory"},
                               !.indexes = @ \cup {<<"inventory", "by-hash">>}]
    [] k = 3 -> [d EXCEPT !.indexes = @ \cup {<<"items", "by-hash">>}]
    [] k = 4 -> [d EXCEPT !.indexes = @ \cup {<<"inventory", "by-date">>}]
    [] OTHER -> d

\* the upgrade callback from step k on: each 'if (oldVersion < k)' in turn
RECURSIVE upgradeFrom(_, _, _, _)
upgradeFrom(k, d, oldVersion, ran) ==
  IF k > DB_VERSION THEN [ok |-> TRUE, disk |-> [d EXCEPT !.version = DB_VERSION], steps |-> ran]
  ELSE IF ~(oldVersion < k) THEN upgradeFrom(k + 1, d, oldVersion, ran)
  ELSE IF stepThrows(k, d) THEN [ok |-> FALSE, disk |-> d, steps |-> ran \cup {k}]
  ELSE upgradeFrom(k + 1, migrateStep(k, d), oldVersion, ran \cup {k})

\* openDB(name, 5, {upgrade}) on database d
upgrade(d, oldVersion) == upgradeFrom(1, d, oldVersion, {})

\* the schema a database of version v has: what the steps up to v built
RECURSIVE schemaAt(_)
schemaAt(v) ==
  IF v = 0 THEN EmptyDisk ELSE [migrateStep(v, schemaAt(v - 1)) EXCEPT !.version = v]

\* parts a database of version v may hold ahead of their step (the steps test for them)
guardedExtras(v) ==
  (IF v = 1 THEN {<<"inventory", "by-hash">>} ELSE {})
    \cup (IF v \in 1..2 THEN {<<"items", "by-hash">>} ELSE {})
    \cup (IF v \in 2..3 THEN {<<"inventory", "by-date">>} ELSE {})

\* the databases a visitor's browser may hold
StoredDisks ==
  UNION {{[version |-> v,
           stores |-> schemaAt(v).stores \cup {x[1] : x \in X},
           indexes |-> schemaAt(v).indexes \cup X] : X \in SUBSET guardedExtras(v)}
         : v \in 0..DB_VERSION}

\* the inventory view before its first load
NoPaging ==
  /\ inventoryShown = <<>> /\ inventoryLastDate = 0
  /\ inventorySort = "created_at-desc" /\ lastPage = <<>>

\* this instance has not called initDB, and no other instance is open
SoleInstance ==
  /\ dbPromise = "unset" /\ initPc = "idle" /\ retryCount = 0 /\ opens = 0
  /\ deletions = 0 /\ stepsRun = {} /\ dbError = FALSE
  /\ conn = [s \in Siblings |-> "none"] /\ busy = {} /\ verchange = {} /\ inbox = {}
  /\ blockedFired = FALSE
  /\ appStatus = "initializing" /\ focusLocal = {}
  /\ NoPaging /\ updateCalls = <<>>

(* ------------------------------- Init --------------------------------- *)
\* the app just loaded: empty store, empty cloud, nobody signed in
FreshApp ==
  /\ batches = <<>> /\ items = <<>> /\ itemKeyGen = 0
  /\ inventory = <<>> /\ invKeyGen = 0
  /\ cloudBatches = <<>> /\ cloudItems = <<>> /\ cloudInv = <<>>
  /\ net = "up" /\ now = 0 /\ restarts = 0 /\ netChanges = 0 /\ signIns = 0
  /\ user = FALSE /\ processing = FALSE /\ isDbInitialized = FALSE
  /\ bootDue = TRUE /\ hasSeenPrompt = FALSE /\ showResumePrompt = FALSE
  /\ incompleteBatch = <<>> /\ isOfflineMode = FALSE
  /\ pc = "idle" /\ runBatch = 0 /\ files = <<>> /\ idx = 0 /\ results = 0
  /\ seenInBatch = <<>> /\ cur = <<>> /\ runUser = FALSE
  /\ keysLoadedFromCloud = FALSE /\ syncPc = "idle" /\ cloudSnap = NoSnap
  /\ pushRuns = 0 /\ race = [pc |-> "idle", key |-> 0, err |-> FALSE] /\ lastSync = <<>>

\* a first visit: the database does not exist yet
Fresh == FreshApp /\ disk = EmptyDisk /\ SoleInstance

Init == Fresh /\ supply = MaxImages /\ aiKeys = TRUE

\* the user has entered no provider key
InitSync == Fresh /\ supply = MaxSyncImages /\ aiKeys = FALSE

(* ------------------------- app lifecycle ------------------------------ *)
\* the tab is reloaded (sessionStorage kept) or closed and reopened
Restart ==
  /\ restarts < MaxRestarts
  /\ restarts' = restarts + 1
  /\ \E keepSession \in BOOLEAN :
       hasSeenPrompt' = (keepSession /\ hasSeenPrompt)
  /\ user' = FALSE /\ processing' = FALSE /\ isDbInitialized' = FALSE
  /\ bootDue' = TRUE /\ showResumePrompt' = FALSE /\ incompleteBatch' = <<>>
  /\ isOfflineMode' = FALSE
  /\ pc' = "idle" /\ runBatch' = 0 /\ files' = <<>> /\ idx' = 0 /\ results' = 0
  /\ seenInBatch' = <<>> /\ cur' = <<>> /\ runUser' = FALSE
  /\ keysLoadedFromCloud' = FALSE /\ syncPc' = "idle" /\ cloudSnap' = NoSnap
  /\ race' = IF race.pc = "p1" THEN [race EXCEPT !.pc = "cut"] ELSE race
  /\ UNCHANGED <<storeVars, cloudVars, net, now, supply, netChanges, signIns, aiKeys,
                 pushRuns, lastSync>>
  /\ dbPromise' = "unset" /\ initPc' = "idle" /\ dbError' = FALSE
  /\ appStatus' = "initializing" /\ focusLocal' = {}
  /\ inventoryShown' = <<>> /\ inventoryLastDate' = 0
  /\ inventorySort' = "created_at-desc" /\ lastPage' = <<>> /\ updateCalls' = <<>>
  /\ UNCHANGED <<disk, retryCount, opens, deletions, stepsRun, tabVars>>

\* the boot effect: initDB, then the check for incomplete batches
Boot ==
  /\ bootDue
  /\ bootDue' = FALSE
  /\ isDbInitialized' = TRUE
  /\ LET incomplete == getIncompleteBatches
     IN IF incomplete # {}
        THEN /\ incompleteBatch' = <<batches[MinOf(incomplete)]>>
             /\ showResumePrompt' = (showResumePrompt \/ ~hasSeenPrompt)
             /\ hasSeenPrompt' = TRUE
        ELSE UNCHANGED <<incompleteBatch, showResumePrompt, hasSeenPrompt>>
  /\ UNCHANGED <<storeVars, cloudVars, envVars, user, processing, isOfflineMode, runVars, syncVars, obsVars>>
  /\ dbPromise' = "open" /\ disk' = upgrade(disk, disk.version).disk
  /\ appStatus' = IF user THEN appStatus ELSE "ready"
  /\ UNCHANGED <<initPc, retryCount, opens, deletions, stepsRun, dbError, tabVars, focusLocal, pageVars, callVars>>

SignIn ==
  /\ ~user /\ signIns < MaxSignIns
  /\ user' = TRUE /\ signIns' = signIns + 1
  /\ bootDue' = TRUE
  /\ UNCHANGED <<storeVars, cloudVars, net, now, restarts, supply, netChanges, aiKeys, processing, isDbInitialized,
                 hasSeenPrompt, showResumePrompt, incompleteBatch, isOfflineMode, runVars, syncVars, obsVars>>
  /\ UNCHANGED engineVars

NetChange ==
  /\ netChanges < MaxNetChanges
  /\ netChanges' = netChanges + 1
  /\ \E n \in {"up", "down", "denied"} : n # net /\ net' = n
  /\ UNCHANGED <<storeVars, cloudVars, now, restarts, supply, signIns, aiKeys, appVars, runVars, syncVars, obsVars>>
  /\ UNCHANGED engineVars

(* --------------------------- processBatch ----------------------------- *)
RECURSIVE imagesTaken(_)
imagesTaken(ks) ==
  IF ks = {} THEN 0
  ELSE LET k == MinOf(ks) IN batches[k].total_images + imagesTaken(ks \ {k})

StartBatch ==
  /\ pc = "idle" /\ isDbInitialized /\ now < MaxBatches
  /\ \E fs \in FileLists(supply - imagesTaken(DOMAIN batches)) :
       /\ files' = fs
       /\ batches' = saveBatch(batches,
             [batch_id |-> now + 1, total_images |-> Len(fs), processed |-> 0,
              failed |-> 0, created_at |-> now + 1, status |-> "processing"])
  /\ now' = now + 1 /\ runBatch' = now + 1
  /\ processing' = TRUE
  /\ pc' = "item" /\ idx' = 0 /\ results' = 0 /\ seenInBatch' = <<>> /\ cur' = <<>>
  /\ runUser' = user
  /\ UNCHANGED <<items, itemKeyGen, inventory, invKeyGen, cloudVars, net, restarts, supply,
                 netChanges, signIns, aiKeys,
                 user, isDbInitialized, bootDue, hasSeenPrompt, showResumePrompt,
                 incompleteBatch, isOfflineMode, syncVars, obsVars>>
  /\ UNCHANGED engineVars

\* where the loop goes after iteration idx
NextPc == IF idx + 1 < Len(files) THEN "item" ELSE "final"

\* the per-item catch: the iteration ends, the loop goes on
ItemCaught ==
  /\ idx' = idx + 1 /\ pc' = NextPc /\ cur' = <<>>
  /\ UNCHANGED <<storeVars, cloudVars, envVars, appVars, runBatch, files, results, seenInBatch, runUser,
                 syncVars, obsVars>>

\* a reuse that copies the record without flagging it
duplicateDataUnflagged(existingItem) ==
  [title |-> existingItem.title, type |-> existingItem.type, year |-> existingItem.year,
   notes |-> existingItem.notes,
   confidence |-> existingItem.confidence, raw_metadata |-> existingItem.raw_metadata]

\* aiData synthesized from an existing record
duplicateData(existingItem) ==
  [title |-> existingItem.title, type |-> existingItem.type, year |-> existingItem.year,
   notes |-> <<"[Duplicate]">> \o existingItem.notes,
   confidence |-> existingItem.confidence, raw_metadata |-> existingItem.raw_metadata]

newInventoryData(h, aiData) ==
  [image_hash |-> h, title |-> aiData.title, type |-> aiData.type, year |-> aiData.year,
   notes |-> aiData.notes, confidence |-> aiData.confidence,
   first_seen |-> now, last_seen |-> now, times_scanned |-> 1,
   raw_metadata |-> aiData.raw_metadata]

\* a duplicate branch that never bumps the inventory entry
bumpsInventoryNever(existingItem, batchExisting) == FALSE

\* whether the duplicate branch bumps the inventory entry
bumpsInventory(existingItem, batchExisting) ==
  Has(existingItem, "id") /\ existingItem.id # 0 /\ batchExisting = <<>>

\* lines 578-697: read the file, fingerprint, dedup lookup, reuse or AI guess
ItemBegin ==
  /\ pc = "item"
  /\ \E readOk \in BOOLEAN, guess \in analyzeImage(aiKeys) :
       LET h             == files[idx + 1]
           dbExisting    == findByImageHash(inventory, h)
           batchExisting == IF h \in DOMAIN seenInBatch THEN <<seenInBatch[h]>> ELSE <<>>
           existing      == IF batchExisting # <<>> THEN batchExisting ELSE dbExisting
       IN IF ~readOk THEN ItemCaught
          ELSE IF existing # <<>>
          THEN LET e == existing[1]
                   r == IF bumpsInventory(e, batchExisting)
                        THEN updateInventoryItem(inventory, invKeyGen, e.id,
                               [last_seen |-> now,
                                times_scanned |-> (IF e.times_scanned = 0 THEN 1 ELSE e.times_scanned) + 1])
                        ELSE [ok |-> TRUE, inv |-> inventory, gen |-> invKeyGen]
               IN IF ~r.ok THEN ItemCaught
                  ELSE /\ inventory' = r.inv /\ invKeyGen' = r.gen
                       /\ cur' = <<[hash |-> h, aiData |-> duplicateData(e), isDupe |-> TRUE]>>
                       /\ results' = results + 1 /\ pc' = "save" /\ bootDue' = TRUE
                       /\ UNCHANGED <<batches, items, itemKeyGen, cloudVars, envVars, user,
                                      processing, isDbInitialized, hasSeenPrompt,
                                      showResumePrompt, incompleteBatch, isOfflineMode,
                                      runBatch, files, idx, seenInBatch, runUser,
                                      syncVars, obsVars>>
          ELSE LET inventoryData == newInventoryData(h, guess)
                   r == addToInventory(inventory, invKeyGen, inventoryData)
               IN IF ~r.ok THEN ItemCaught
                  ELSE /\ inventory' = r.inv /\ invKeyGen' = r.gen
                       /\ seenInBatch' = Put(seenInBatch, h, inventoryData)
                       /\ IF runUser THEN syncInventoryToCloud(inventoryData)
                                  ELSE UNCHANGED cloudInv
                       /\ cur' = <<[hash |-> h, aiData |-> guess, isDupe |-> FALSE]>>
                       /\ results' = results + 1 /\ pc' = "save" /\ bootDue' = TRUE
                       /\ UNCHANGED <<batches, items, itemKeyGen, cloudBatches, cloudItems,
                                      envVars, user, processing, isDbInitialized,
                                      hasSeenPrompt, showResumePrompt, incompleteBatch,
                                      isOfflineMode, runBatch, files, idx, runUser,
                                      syncVars, obsVars>>
  /\ UNCHANGED engineVars

\* lines 699-716: persist the item, push it
ItemSave ==
  /\ pc = "save"
  /\ LET aiData == cur[1].aiData
         itemRecord ==
           [batch_id |-> runBatch, filename |-> idx + 1, title |-> aiData.title,
            type |-> aiData.type, year |-> aiData.year, notes |-> aiData.notes,
            confidence |-> aiData.confidence, image_data |-> cur[1].hash,
            status |-> "completed", image_hash |-> cur[1].hash,
            raw_metadata |-> aiData.raw_metadata]
         r == saveItem(items, itemKeyGen, itemRecord)
     IN /\ items' = r.items /\ itemKeyGen' = r.gen
        /\ IF runUser THEN syncItemToCloud(itemRecord) ELSE UNCHANGED cloudItems
  /\ pc' = "update"
  /\ UNCHANGED <<batches, inventory, invKeyGen, cloudBatches, cloudInv, envVars, appVars,
                 runBatch, files, idx, results, seenInBatch, cur, runUser,
                 syncVars, obsVars>>
  /\ UNCHANGED engineVars

\* lines 718-735: re-save the batch with the progress counter, push it
ItemBatchUpdate ==
  /\ pc = "update"
  /\ LET batchUpdate ==
           [batch_id |-> runBatch, total_images |-> Len(files), processed |-> idx + 1,
            failed |-> 0, created_at |-> runBatch, status |-> "processing"]
     IN /\ batches' = saveBatch(batches, batchUpdate)
        /\ IF runUser THEN syncBatchToCloud(batchUpdate)
                   ELSE UNCHANGED <<cloudBatches, isOfflineMode>>
  /\ idx' = idx + 1 /\ pc' = NextPc /\ cur' = <<>>
  /\ UNCHANGED <<items, itemKeyGen, inventory, invKeyGen, cloudItems, cloudInv, envVars,
                 user, processing, isDbInitialized, bootDue, hasSeenPrompt,
                 showResumePrompt, incompleteBatch, runBatch, files, results, seenInBatch,
                 runUser, syncVars, obsVars>>
  /\ UNCHANGED engineVars

\* lines 743-757: the loop is over
FinishBatch ==
  /\ pc = "final"
  /\ LET finalBatch ==
           [batch_id |-> runBatch, total_images |-> Len(files), processed |-> results,
            failed |-> Len(files) - results, created_at |-> runBatch, status |-> "completed"]
     IN /\ batches' = saveBatch(batches, finalBatch)
        /\ IF runUser THEN syncBatchToCloud(finalBatch)
                   ELSE UNCHANGED <<cloudBatches, isOfflineMode>>
  /\ processing' = FALSE
  /\ pc' = "idle" /\ runBatch' = 0 /\ files' = <<>> /\ idx' = 0 /\ results' = 0
  /\ seenInBatch' = <<>> /\ cur' = <<>> /\ runUser' = FALSE
  /\ UNCHANGED <<items, itemKeyGen, inventory, invKeyGen, cloudItems, cloudInv, envVars,
                 user, isDbInitialized, bootDue, hasSeenPrompt, showResumePrompt,
                 incompleteBatch, syncVars, obsVars>>
  /\ UNCHANGED engineVars

\* the Cancel button of the progress card
Cancel ==
  /\ processing
  /\ processing' = FALSE
  /\ UNCHANGED <<storeVars, cloudVars, envVars, user, isDbInitialized, bootDue,
                 hasSeenPrompt, showResumePrompt, incompleteBatch, isOfflineMode, runVars, syncVars, obsVars>>
  /\ UNCHANGED engineVars

(* ------------------------ resume prompt ------------------------------- *)
pendingItems(batchId) ==
  {k \in getBatchItems(items, batchId) : items[k].status = "pending"}

\* Resume button: resumeBatch(incompleteBatch) when no item of the batch is pending
ResumeBatch ==
  /\ showResumePrompt /\ incompleteBatch # <<>>
  /\ pendingItems(incompleteBatch[1].batch_id) = {}
  /\ LET finalBatch == Spread(incompleteBatch[1], [status |-> "completed"])
     IN /\ batches' = saveBatch(batches, finalBatch)
        /\ IF user THEN syncBatchToCloud(finalBatch)
                   ELSE UNCHANGED <<cloudBatches, isOfflineMode>>
  /\ showResumePrompt' = FALSE
  /\ UNCHANGED <<items, itemKeyGen, inventory, invKeyGen, cloudItems, cloudInv, envVars,
                 user, processing, isDbInitialized, bootDue, hasSeenPrompt,
                 incompleteBatch, runVars, syncVars, obsVars>>
  /\ UNCHANGED engineVars

\* Dismiss button
DismissPrompt ==
  /\ showResumePrompt /\ incompleteBatch # <<>>
  /\ LET finalBatch == Spread(incompleteBatch[1], [status |-> "completed"])
     IN /\ batches' = saveBatch(batches, finalBatch)
        /\ IF user THEN syncBatchToCloud(finalBatch)
                   ELSE UNCHANGED <<cloudBatches, isOfflineMode>>
  /\ showResumePrompt' = FALSE /\ incompleteBatch' = <<>>
  /\ UNCHANGED <<items, itemKeyGen, inventory, invKeyGen, cloudItems, cloudInv, envVars,
                 user, processing, isDbInitialized, bootDue, hasSeenPrompt, runVars,
                 syncVars, obsVars>>
  /\ UNCHANGED engineVars

(* ----------------------- session and network -------------------------- *)
\* the auth listener reports no user
SignOut ==
  /\ user
  /\ user' = FALSE
  /\ bootDue' = TRUE
  /\ keysLoadedFromCloud' = FALSE
  /\ UNCHANGED <<storeVars, cloudVars, envVars, processing, isDbInitialized,
                 hasSeenPrompt, showResumePrompt, incompleteBatch, isOfflineMode,
                 runVars, syncPc, cloudSnap, obsVars>>
  /\ UNCHANGED engineVars

(* ------------------- ranged reads of the Local Store ------------------ *)
DEFAULT_BATCH_LIMIT == 50
DEFAULT_INVENTORY_LIMIT == 50

\* the by-date cursor, direction 'prev', cut at limit
getBatches(bs, limit) ==
  {k \in DOMAIN bs :
     Cardinality({j \in DOMAIN bs :
        \/ bs[j].created_at > bs[k].created_at
        \/ bs[j].created_at = bs[k].created_at /\ j > k}) < limit}

\* the by-date (last_seen) cursor, direction 'prev', cut at limit
getAllInventory(inv, limit) ==
  {k \in DOMAIN inv :
     Cardinality({j \in DOMAIN inv :
        \/ inv[j].last_seen > inv[k].last_seen
        \/ inv[j].last_seen = inv[k].last_seen /\ j > k}) < limit}

(* -------------------------- loadAllFromCloud -------------------------- *)
\* loadBatchesFromCloud, then loadInventoryFromCloud: a failed read gives [],
\* and only a network-classified failure of the batches read flips the flag
loadAllFromCloud ==
  IF isFirebaseConfigured /\ net = "up"
  THEN cloudSnap' = [batches |-> cloudBatches, inventory |-> cloudInv]
       /\ UNCHANGED isOfflineMode
  ELSE /\ cloudSnap' = NoSnap
       /\ isOfflineMode' = IF isFirebaseConfigured THEN handleNetworkError(isOfflineMode)
                           ELSE isOfflineMode

\* for (const b of cloudBatches) await saveBatch(b)
saveCloudBatches(bs, snap) ==
  [k \in DOMAIN bs \cup DOMAIN snap |-> IF k \in DOMAIN snap THEN snap[k] ELSE bs[k]]

BatchNext ==
  \/ Restart \/ Boot
  \/ StartBatch \/ ItemBegin \/ ItemSave \/ ItemBatchUpdate \/ FinishBatch
  \/ Cancel \/ ResumeBatch \/ DismissPrompt

SpecBatch == Init /\ [][BatchNext]_vars

\* lines 699-716 when saveItem rejects (quota exceeded, connection closed):
\* results already holds the item, the per-item catch ends the iteration
ItemSaveFails ==
  /\ pc = "save"
  /\ ItemCaught
  /\ UNCHANGED engineVars

\* the iteration of the run that has just ended in the per-item catch
ItemRaised == ItemSaveFails \/ (ItemBegin /\ pc' # "save")

\* lines 743-753 when the final saveBatch rejects: processBatch has no outer
\* catch, the call ends there and setProcessing(false) is never reached
FinishBatchFails ==
  /\ pc = "final"
  /\ pc' = "idle" /\ runBatch' = 0 /\ files' = <<>> /\ idx' = 0 /\ results' = 0
  /\ seenInBatch' = <<>> /\ cur' = <<>> /\ runUser' = FALSE
  /\ UNCHANGED <<storeVars, cloudVars, envVars, appVars, syncVars, obsVars, engineVars>>

FaultsNext == BatchNext \/ ItemSaveFails \/ FinishBatchFails

\* batches on a store whose writes can fail
SpecFaults == Init /\ [][FaultsNext]_vars

(* ------------------ loadCloudData (sign-in sync) ---------------------- *)
\* the effect passes its guards and reads the cloud
SyncLoad ==
  /\ isDbInitialized /\ user /\ ~keysLoadedFromCloud /\ syncPc = "idle"
  /\ loadAllFromCloud
  /\ syncPc' = "merge"
  /\ UNCHANGED <<storeVars, cloudVars, envVars, uiVars, runVars, keysLoadedFromCloud, obsVars>>
  /\ appStatus' = "syncing"
  /\ UNCHANGED <<dbVars, tabVars, focusLocal, pageVars, callVars>>

\* lines 474-482, in the order of the documents; a rejected store call ends the loop
RECURSIVE mergeCloudInventory(_, _, _)
mergeCloudInventory(r, snap, hs) ==
  IF hs = {} \/ ~r.ok THEN r
  ELSE LET h        == MinOf(hs)
           existing == findByImageHash(r.inv, h)
           step     == IF existing = <<>> THEN addToInventory(r.inv, r.gen, snap[h])
                       ELSE IF Has(existing[1], "id") /\ existing[1].id # 0
                            THEN updateInventoryItem(r.inv, r.gen, existing[1].id, snap[h])
                            ELSE r
       IN mergeCloudInventory(step, snap, hs \ {h})

\* the sync is over: setKeysLoadedFromCloud(true), undone at once when signed out
SyncEnd ==
  /\ keysLoadedFromCloud' = user /\ syncPc' = "idle" /\ cloudSnap' = NoSnap

\* lines 464-484: every cloud batch is saved, every cloud entry merged
SyncMerge ==
  /\ syncPc = "merge"
  /\ batches' = saveCloudBatches(batches, cloudSnap.batches)
  /\ LET r == mergeCloudInventory([ok |-> TRUE, inv |-> inventory, gen |-> invKeyGen],
                                  cloudSnap.inventory, DOMAIN cloudSnap.inventory)
     IN /\ inventory' = r.inv /\ invKeyGen' = r.gen
        /\ IF r.ok THEN syncPc' = "push" /\ UNCHANGED <<keysLoadedFromCloud, cloudSnap, appStatus>>
           ELSE SyncEnd /\ appStatus' = "error"
  /\ UNCHANGED <<items, itemKeyGen, cloudVars, envVars, appVars, runVars, obsVars>>
  /\ UNCHANGED <<dbVars, tabVars, focusLocal, pageVars, callVars>>

\* lines 487-494: the snapshot was empty and the store is not
fullPushDue ==
  /\ cloudSnap.batches = <<>> /\ cloudSnap.inventory = <<>>
  /\ getBatches(batches, DEFAULT_BATCH_LIMIT) # {}
       \/ getAllInventory(inventory, DEFAULT_INVENTORY_LIMIT) # {}

\* syncAllToCloud(uid, localBatches, [], localInventory)
syncAllToCloud(localBatches, localInventory) ==
  IF ~isFirebaseConfigured THEN UNCHANGED <<cloudBatches, cloudInv, isOfflineMode, pushRuns>>
  ELSE /\ pushRuns' = IF pushRuns < MaxPushRuns THEN pushRuns + 1 ELSE pushRuns
       /\ IF net = "up"
          THEN /\ cloudBatches' = [k \in DOMAIN cloudBatches \cup localBatches |->
                                     IF k \in localBatches THEN batches[k] ELSE cloudBatches[k]]
               /\ cloudInv' = LET hs == {inventory[k].image_hash : k \in localInventory}
                              IN [h \in DOMAIN cloudInv \cup hs |->
                                    IF h \in hs
                                    THEN inventory[CHOOSE k \in localInventory :
                                                     inventory[k].image_hash = h]
                                    ELSE cloudInv[h]]
               /\ UNCHANGED isOfflineMode
          ELSE /\ isOfflineMode' = IF localBatches # {} THEN handleNetworkError(isOfflineMode)
                                   ELSE isOfflineMode
               /\ UNCHANGED <<cloudBatches, cloudInv>>

SyncPush ==
  /\ syncPc = "push"
  /\ IF fullPushDue
     THEN syncAllToCloud(getBatches(batches, DEFAULT_BATCH_LIMIT),
                         getAllInventory(inventory, DEFAULT_INVENTORY_LIMIT))
     ELSE UNCHANGED <<cloudBatches, cloudInv, isOfflineMode, pushRuns>>
  /\ SyncEnd
  /\ UNCHANGED <<storeVars, cloudItems, envVars, uiVars, runVars, race, lastSync>>
  /\ appStatus' = "ready"
  /\ UNCHANGED <<dbVars, tabVars, focusLocal, pageVars, callVars>>

(* ------------------- handleForcePull (manual pull) -------------------- *)
PullLoad ==
  /\ isDbInitialized /\ user /\ syncPc = "idle"
  /\ loadAllFromCloud
  /\ syncPc' = "pullMerge"
  /\ UNCHANGED <<storeVars, cloudVars, envVars, uiVars, runVars, keysLoadedFromCloud, obsVars>>
  /\ appStatus' = "syncing"
  /\ UNCHANGED <<dbVars, tabVars, focusLocal, pageVars, callVars>>

\* line 313: addToInventory for every cloud entry until a call is rejected
RECURSIVE addCloudInventory(_, _, _)
addCloudInventory(r, snap, hs) ==
  IF hs = {} \/ ~r.ok THEN r
  ELSE LET h == MinOf(hs)
       IN addCloudInventory(addToInventory(r.inv, r.gen, snap[h]), snap, hs \ {h})

PullMerge ==
  /\ syncPc = "pullMerge"
  /\ batches' = saveCloudBatches(batches, cloudSnap.batches)
  /\ LET r == addCloudInventory([ok |-> TRUE, inv |-> inventory, gen |-> invKeyGen],
                                cloudSnap.inventory, DOMAIN cloudSnap.inventory)
     IN inventory' = r.inv /\ invKeyGen' = r.gen
  /\ syncPc' = "idle" /\ cloudSnap' = NoSnap
  /\ UNCHANGED <<items, itemKeyGen, cloudVars, envVars, appVars, runVars,
                 keysLoadedFromCloud, obsVars>>
  /\ appStatus' = "ready"
  /\ UNCHANGED <<dbVars, tabVars, focusLocal, pageVars, callVars>>

SyncNext ==
  \/ Restart \/ Boot \/ SignIn \/ NetChange
  \/ StartBatch \/ ItemBegin \/ ItemSave \/ ItemBatchUpdate \/ FinishBatch
  \/ SyncLoad \/ SyncMerge \/ SyncPush

SpecSync == InitSync /\ [][SyncNext]_vars

(* --------------- the DB Concurrency self-test (testRunner.ts) --------- *)
\* "race_hash_" + Date.now(): a fingerprint no image has
RaceHash == 0

raceItem ==
  [image_hash |-> RaceHash, title |-> "Race Car", type |-> "Toy", year |-> "2024",
   notes |-> <<"Zoom">>, confidence |-> "High", first_seen |-> now, last_seen |-> now,
   times_scanned |-> 1]

\* p1 = addToInventory(raceItem)
RaceFirst ==
  /\ isDbInitialized /\ race.pc = "idle"
  /\ LET r == addToInventory(inventory, invKeyGen, raceItem)
     IN /\ inventory' = r.inv /\ invKeyGen' = r.gen
        /\ race' = [pc |-> "p1", key |-> IF r.ok THEN r.gen ELSE 0, err |-> ~r.ok]
  /\ UNCHANGED <<batches, items, itemKeyGen, cloudVars, envVars, appVars, runVars,
                 syncVars, pushRuns, lastSync>>
  /\ UNCHANGED engineVars

\* p2 = addToInventory({ ...raceItem, times_scanned: 1 })
RaceSecond ==
  /\ race.pc = "p1"
  /\ LET r == addToInventory(inventory, invKeyGen, Spread(raceItem, [times_scanned |-> 1]))
     IN /\ inventory' = r.inv /\ invKeyGen' = r.gen
        /\ race' = [race EXCEPT !.pc = "done", !.err = race.err \/ ~r.ok]
  /\ UNCHANGED <<batches, items, itemKeyGen, cloudVars, envVars, appVars, runVars,
                 syncVars, pushRuns, lastSync>>
  /\ UNCHANGED engineVars

PullNext ==
  \/ Boot \/ SignIn
  \/ StartBatch \/ ItemBegin \/ ItemSave \/ ItemBatchUpdate \/ FinishBatch
  \/ SyncLoad \/ SyncMerge \/ SyncPush
  \/ PullLoad \/ PullMerge
  \/ RaceFirst \/ RaceSecond

SpecPull == InitSync /\ [][PullNext]_vars

(* ------------- a store filled before the first sign-in ---------------- *)
\* what processBatch stores for image i of a batch when no provider key is set
scannedItem(b, i, h, dupe) ==
  [id |-> 0, batch_id |-> b, filename |-> i, title |-> generateLocalFallback.title,
   type |-> generateLocalFallback.type, year |-> generateLocalFallback.year,
   notes |-> IF dupe THEN <<"[Duplicate]">> \o generateLocalFallback.notes
             ELSE generateLocalFallback.notes,
   confidence |-> generateLocalFallback.confidence, image_data |-> h,
   status |-> "completed", image_hash |-> h,
   raw_metadata |-> generateLocalFallback.raw_metadata]

\* the store after B signed-out runs: the first over V distinct images (one
\* unreadable image when V = 0), every later one over the first image again
filledBatches(B, V) ==
  [k \in 1..B |->
     [batch_id |-> k, total_images |-> IF k = 1 /\ V > 0 THEN V ELSE 1,
      processed |-> IF V = 0 THEN 0 ELSE IF k = 1 THEN V ELSE 1,
      failed |-> IF V = 0 THEN 1 ELSE 0, created_at |-> k, status |-> "completed"]]

filledItems(B, V) ==
  IF V = 0 THEN <<>>
  ELSE [k \in 1..(V + B - 1) |->
          IF k <= V THEN Spread(scannedItem(1, k, k, FALSE), [id |-> k])
          ELSE Spread(scannedItem(k - V + 1, 1, 1, TRUE), [id |-> k])]

filledInventory(B, V) ==
  [k \in 1..V |->
     Spread(newInventoryData(k, generateLocalFallback),
            [id |-> k, first_seen |-> 1, last_seen |-> IF k = 1 THEN B ELSE 1,
             times_scanned |-> IF k = 1 THEN B ELSE 1])]

InitBootstrap ==
  /\ \E B \in 0..MaxStored, V \in 0..MaxStored :
       /\ V > 0 => B > 0
       /\ batches = filledBatches(B, V) /\ now = B
       /\ items = filledItems(B, V) /\ itemKeyGen = Len(filledItems(B, V))
       /\ inventory = filledInventory(B, V) /\ invKeyGen = V
  /\ cloudBatches = <<>> /\ cloudItems = <<>> /\ cloudInv = <<>>
  /\ net = "up" /\ restarts = 0 /\ netChanges = 0 /\ signIns = 0
  /\ supply = 0 /\ aiKeys = FALSE
  /\ user = FALSE /\ processing = FALSE /\ isDbInitialized = FALSE
  /\ bootDue = TRUE /\ hasSeenPrompt = FALSE /\ showResumePrompt = FALSE
  /\ incompleteBatch = <<>> /\ isOfflineMode = FALSE
  /\ pc = "idle" /\ runBatch = 0 /\ files = <<>> /\ idx = 0 /\ results = 0
  /\ seenInBatch = <<>> /\ cur = <<>> /\ runUser = FALSE
  /\ keysLoadedFromCloud = FALSE /\ syncPc = "idle" /\ cloudSnap = NoSnap
  /\ pushRuns = 0 /\ race = [pc |-> "idle", key |-> 0, err |-> FALSE] /\ lastSync = <<>>
  /\ disk = schemaAt(DB_VERSION) /\ SoleInstance

BootstrapNext ==
  \/ Boot \/ SignIn \/ SignOut
  \/ SyncLoad \/ SyncMerge \/ SyncPush

SpecBootstrap == InitBootstrap /\ [][BootstrapNext]_vars

(* ------------------------- handleEditItem ----------------------------- *)
\* bytes of a text the user leaves empty or pastes in full
TextSizes == {0, HugeText}

\* the user saves the detail view of a stored item
EditItem ==
  /\ isDbInitialized
  /\ \E k \in DOMAIN items, quote \in TextSizes, comps \in TextSizes :
       LET updatedItem == Spread(items[k], [comps_quote |-> quote, saved_comps |-> comps])
           updates == [title |-> updatedItem.title, type |-> updatedItem.type,
                       year |-> updatedItem.year, notes |-> updatedItem.notes,
                       comps_quote |-> updatedItem.comps_quote,
                       saved_comps |-> updatedItem.saved_comps]
           payload == [batch_id |-> updatedItem.batch_id, filename |-> updatedItem.filename,
                       title |-> updatedItem.title, type |-> updatedItem.type,
                       year |-> updatedItem.year, notes |-> updatedItem.notes,
                       confidence |-> updatedItem.confidence, status |-> "completed",
                       comps_quote |-> updatedItem.comps_quote,
                       saved_comps |-> updatedItem.saved_comps]
       IN /\ items' = updateItem(items, k, updates)
          /\ IF user
             THEN /\ syncItemToCloud(payload)
                  /\ lastSync' = <<[item |-> payload, offline |-> isOfflineMode,
                                    reachable |-> isFirebaseConfigured /\ net = "up"]>>
             ELSE UNCHANGED <<cloudItems, lastSync>>
  /\ UNCHANGED <<batches, itemKeyGen, inventory, invKeyGen, cloudBatches, cloudInv,
                 envVars, appVars, runVars, syncVars, pushRuns, race>>
  /\ UNCHANGED engineVars

\* the "retry network" button: retryConnection()
RetryConnection ==
  /\ isOfflineMode' = FALSE
  /\ UNCHANGED <<storeVars, cloudVars, envVars, uiVars, runVars, syncVars, obsVars>>
  /\ UNCHANGED engineVars

\* one image at hand, no provider key
InitEdit == Fresh /\ supply = MaxEditImages /\ aiKeys = FALSE

EditNext ==
  \/ Boot \/ SignIn \/ NetChange
  \/ StartBatch \/ ItemBegin \/ ItemSave \/ ItemBatchUpdate \/ FinishBatch
  \/ SyncLoad \/ SyncMerge \/ SyncPush
  \/ EditItem \/ RetryConnection

SpecEdit == InitEdit /\ [][EditNext]_vars

(* ------------------- loadInventory / getAllInventory ------------------- *)
INVENTORY_PAGE == 50   \* loadInventory: const limit = 50
MaxPaged == 52         \* entries of the largest inventory paged through
NumTied == 3           \* entries whose last_seen is drawn freely
DateSorts == {"created_at-desc", "created_at-asc"}

\* the order in which a cursor over the by-date index (key last_seen, then
\* primary key) meets j before k: descending for 'prev', ascending for 'next'
cursorBefore(inv, direction, j, k) ==
  IF direction = "prev"
  THEN \/ inv[j].last_seen > inv[k].last_seen
       \/ inv[j].last_seen = inv[k].last_seen /\ j > k
  ELSE \/ inv[j].last_seen < inv[k].last_seen
       \/ inv[j].last_seen = inv[k].last_seen /\ j < k

\* the records of 'keys' in cursor order
cursorOrder(inv, direction, keys) ==
  LET rank == [k \in keys |->
                 Cardinality({j \in keys : cursorBefore(inv, direction, j, k)})]
  IN [i \in 1..Cardinality(keys) |-> CHOOSE k \in keys : rank[k] = i - 1]

\* getAllInventory(limit, lastKey, sort) for the two date sorts; lastKey 0 is
\* undefined.  The range is closed at lastKey, and one record is stepped over
\* when the cursor opens on that key.
getAllInventoryFrom(inv, limit, lastKey, sort) ==
  LET direction == IF sort = "created_at-desc" THEN "prev" ELSE "next"
      range == {k \in DOMAIN inv :
                  \/ lastKey = 0
                  \/ direction = "prev" /\ inv[k].last_seen <= lastKey
                  \/ direction = "next" /\ inv[k].last_seen >= lastKey}
      cursor == cursorOrder(inv, direction, range)
      skip == IF lastKey # 0 /\ cursor # <<>> /\ inv[cursor[1]].last_seen = lastKey
              THEN 1 ELSE 0
      last == IF Len(cursor) < skip + limit THEN Len(cursor) ELSE skip + limit
  IN SubSeq(cursor, skip + 1, last)

\* loadInventory(reset)
loadInventory(reset) ==
  LET lastDate == IF reset THEN 0 ELSE inventoryLastDate
      newItems == getAllInventoryFrom(inventory, INVENTORY_PAGE, lastDate, inventorySort')
  IN /\ lastPage' = <<newItems>>
     /\ inventoryShown' = IF reset THEN newItems ELSE inventoryShown \o newItems
     /\ inventoryLastDate' = IF newItems # <<>>
                             THEN inventory[newItems[Len(newItems)]].last_seen
                             ELSE inventoryLastDate

\* the inventory view is opened or refreshed
LoadInventory ==
  /\ isDbInitialized
  /\ inventorySort' = inventorySort
  /\ loadInventory(TRUE)
  /\ UNCHANGED <<storeVars, cloudVars, envVars, appVars, runVars, syncVars, obsVars,
                 dbVars, tabVars, focusVars, callVars>>

\* the next page is asked for, unless the last one came back empty
LoadMore ==
  /\ isDbInitialized
  /\ lastPage # <<>> /\ lastPage[1] # <<>>
  /\ Len(inventoryShown) <= MaxPaged
  /\ inventorySort' = inventorySort
  /\ loadInventory(FALSE)
  /\ UNCHANGED <<storeVars, cloudVars, envVars, appVars, runVars, syncVars, obsVars,
                 dbVars, tabVars, focusVars, callVars>>

\* the sort selector: the view effect reloads from the first page
SetSort ==
  /\ isDbInitialized
  /\ \E s \in DateSorts \ {inventorySort} : inventorySort' = s
  /\ loadInventory(TRUE)
  /\ UNCHANGED <<storeVars, cloudVars, envVars, appVars, runVars, syncVars, obsVars,
                 dbVars, tabVars, focusVars, callVars>>

\* an inventory of V entries: the NumTied oldest carry the last_seen values t,
\* every other entry a last_seen of its own
pagedInventory(V, t) ==
  [k \in 1..V |->
     Spread(newInventoryData(k, generateLocalFallback),
            [id |-> k, first_seen |-> 1, times_scanned |-> 1,
             last_seen |-> IF k <= NumTied THEN t[k] ELSE k])]

InitPaging ==
  /\ \E V \in {NumTied, MaxPaged - 1, MaxPaged}, t \in [1..NumTied -> 1..NumTied] :
       /\ now = V
       /\ inventory = pagedInventory(V, t) /\ invKeyGen = V
  /\ batches = <<>> /\ items = <<>> /\ itemKeyGen = 0
  /\ cloudBatches = <<>> /\ cloudItems = <<>> /\ cloudInv = <<>>
  /\ net = "up" /\ restarts = 0 /\ netChanges = 0 /\ signIns = 0
  /\ supply = 0 /\ aiKeys = FALSE
  /\ user = FALSE /\ processing = FALSE /\ isDbInitialized = FALSE
  /\ bootDue = TRUE /\ hasSeenPrompt = FALSE /\ showResumePrompt = FALSE
  /\ incompleteBatch = <<>> /\ isOfflineMode = FALSE
  /\ pc = "idle" /\ runBatch = 0 /\ files = <<>> /\ idx = 0 /\ results = 0
  /\ seenInBatch = <<>> /\ cur = <<>> /\ runUser = FALSE
  /\ keysLoadedFromCloud = FALSE /\ syncPc = "idle" /\ cloudSnap = NoSnap
  /\ pushRuns = 0 /\ race = [pc |-> "idle", key |-> 0, err |-> FALSE] /\ lastSync = <<>>
  /\ disk = schemaAt(DB_VERSION) /\ SoleInstance

PagingNext == Boot \/ LoadInventory \/ LoadMore \/ SetSort

SpecPaging == InitPaging /\ [][PagingNext]_vars

(* ------------- a cloud account another device has pushed to ------------- *)
MaxSharedImages == 1   \* images at hand on this device

\* users/{uid}/inventory after the other device's syncAllToCloud: its entry of
\* fingerprint h, stored there under the generated key 1, id included
otherDeviceInventory(h) ==
  (h :> Spread(newInventoryData(h, generateLocalFallback), [id |-> 1]))

InitShared ==
  /\ batches = <<>> /\ items = <<>> /\ itemKeyGen = 0
  /\ inventory = <<>> /\ invKeyGen = 0
  /\ now = 0
  /\ cloudBatches = <<>> /\ cloudItems = <<>>
  /\ \E h \in Hashes : cloudInv = otherDeviceInventory(h)
  /\ net = "up" /\ restarts = 0 /\ netChanges = 0 /\ signIns = 0
  /\ supply = MaxSharedImages /\ aiKeys = FALSE
  /\ user = FALSE /\ processing = FALSE /\ isDbInitialized = FALSE
  /\ bootDue = TRUE /\ hasSeenPrompt = FALSE /\ showResumePrompt = FALSE
  /\ incompleteBatch = <<>> /\ isOfflineMode = FALSE
  /\ pc = "idle" /\ runBatch = 0 /\ files = <<>> /\ idx = 0 /\ results = 0
  /\ seenInBatch = <<>> /\ cur = <<>> /\ runUser = FALSE
  /\ keysLoadedFromCloud = FALSE /\ syncPc = "idle" /\ cloudSnap = NoSnap
  /\ pushRuns = 0 /\ race = [pc |-> "idle", key |-> 0, err |-> FALSE] /\ lastSync = <<>>
  /\ disk = EmptyDisk /\ SoleInstance

SharedNext ==
  \/ Restart \/ Boot \/ SignIn \/ NetChange
  \/ StartBatch \/ ItemBegin \/ ItemSave \/ ItemBatchUpdate \/ FinishBatch
  \/ SyncLoad \/ SyncMerge \/ SyncPush
  \/ PullLoad \/ PullMerge

SpecShared == InitShared /\ [][SharedNext]_vars

(* ------------------ updateItem, one await at a time -------------------- *)
MaxUpdateCalls == 2    \* updateItem calls in one behaviour
MaxUpdateImages == 1   \* images at hand in the behaviours of updateItem

\* the 'updates' argument of a call: partial records over different fields
UpdateChoices == {[title |-> "Edited"], [year |-> "1999"]}

\* a caller invokes updateItem(id, updates): the call awaits dbPromise
UpdateItemCall ==
  /\ isDbInitialized
  /\ \E c \in 1..MaxUpdateCalls \ DOMAIN updateCalls,
        id \in DOMAIN items \cup {itemKeyGen + 1},
        updates \in UpdateChoices :
       updateCalls' = Put(updateCalls, c,
                          [pc |-> "get", id |-> id, updates |-> updates, item |-> <<>>])
  /\ UNCHANGED <<storeVars, cloudVars, envVars, appVars, runVars, syncVars, obsVars,
                 dbVars, tabVars, focusVars, pageVars>>

\* const item = await db.get('items', id); a call that finds nothing returns
UpdateItemGet ==
  /\ \E c \in DOMAIN updateCalls :
       /\ updateCalls[c].pc = "get"
       /\ LET id == updateCalls[c].id
          IN updateCalls' = [updateCalls EXCEPT ![c] =
               IF id \in DOMAIN items
               THEN [@ EXCEPT !.pc = "put", !.item = <<items[id]>>]
               ELSE [@ EXCEPT !.pc = "done"]]
  /\ UNCHANGED <<storeVars, cloudVars, envVars, appVars, runVars, syncVars, obsVars,
                 dbVars, tabVars, focusVars, pageVars>>

\* await db.put('items', { ...item, ...updates })
UpdateItemPut ==
  /\ \E c \in DOMAIN updateCalls :
       /\ updateCalls[c].pc = "put"
       /\ LET rec == Spread(updateCalls[c].item[1], updateCalls[c].updates)
          IN items' = Put(items, rec.id, rec)
       /\ updateCalls' = [updateCalls EXCEPT ![c].pc = "done"]
  /\ UNCHANGED <<batches, itemKeyGen, inventory, invKeyGen, cloudVars, envVars, appVars,
                 runVars, syncVars, obsVars, dbVars, tabVars, focusVars, pageVars>>

InitUpdate == Fresh /\ supply = MaxUpdateImages /\ aiKeys = FALSE

UpdateNext ==
  \/ Boot
  \/ StartBatch \/ ItemBegin \/ ItemSave \/ ItemBatchUpdate \/ FinishBatch
  \/ UpdateItemCall \/ UpdateItemGet \/ UpdateItemPut

SpecUpdate == InitUpdate /\ [][UpdateNext]_vars

(* ------------- items of files the user has named, in the cloud --------- *)
NumNamedItems == 2     \* items in the store
NumNamedBatches == 2   \* batches they belong to

\* deleteItemFromCloud(uid, batchId, filename)
deleteItemFromCloud(batchId, filename) ==
  IF isFirebaseConfigured /\ net = "up"
  THEN cloudItems' = Without(cloudItems, {itemId(batchIdText(batchId), fileNameText(filename))})
  ELSE UNCHANGED cloudItems

\* handleDeleteItem: the detail view's delete button
DeleteItem ==
  /\ isDbInitialized
  /\ \E k \in DOMAIN items :
       /\ items' = Without(items, {k})
       /\ IF user THEN deleteItemFromCloud(items[k].batch_id, items[k].filename)
                  ELSE UNCHANGED cloudItems
  /\ UNCHANGED <<batches, itemKeyGen, inventory, invKeyGen, cloudBatches, cloudInv,
                 envVars, appVars, runVars, syncVars, obsVars>>
  /\ UNCHANGED engineVars

\* the store after signed-out runs over named files: NumNamedItems items, no
\* two of the same batch and file name
InitNamed ==
  /\ now = NumNamedBatches
  /\ \E b \in [1..NumNamedItems -> 1..NumNamedBatches],
        f \in [1..NumNamedItems -> {NameBase + n : n \in 1..Len(NamedFiles)}] :
       /\ \A j, k \in 1..NumNamedItems : (b[j] = b[k] /\ f[j] = f[k]) => j = k
       /\ items = [k \in 1..NumNamedItems |->
                     Spread(scannedItem(b[k], f[k], k, FALSE), [id |-> k])]
       /\ batches = [k \in 1..NumNamedBatches |->
                       [batch_id |-> k, total_images |-> Cardinality({j \in 1..NumNamedItems : b[j] = k}),
                        processed |-> Cardinality({j \in 1..NumNamedItems : b[j] = k}),
                        failed |-> 0, created_at |-> k, status |-> "completed"]]
  /\ itemKeyGen = NumNamedItems
  /\ inventory = filledInventory(1, NumNamedItems) /\ invKeyGen = NumNamedItems
  /\ cloudBatches = <<>> /\ cloudItems = <<>> /\ cloudInv = <<>>
  /\ net = "up" /\ restarts = 0 /\ netChanges = 0 /\ signIns = 0
  /\ supply = 0 /\ aiKeys = FALSE
  /\ user = FALSE /\ processing = FALSE /\ isDbInitialized = FALSE
  /\ bootDue = TRUE /\ hasSeenPrompt = FALSE /\ showResumePrompt = FALSE
  /\ incompleteBatch = <<>> /\ isOfflineMode = FALSE
  /\ pc = "idle" /\ runBatch = 0 /\ files = <<>> /\ idx = 0 /\ results = 0
  /\ seenInBatch = <<>> /\ cur = <<>> /\ runUser = FALSE
  /\ keysLoadedFromCloud = FALSE /\ syncPc = "idle" /\ cloudSnap = NoSnap
  /\ pushRuns = 0 /\ race = [pc |-> "idle", key |-> 0, err |-> FALSE] /\ lastSync = <<>>
  /\ disk = schemaAt(DB_VERSION) /\ SoleInstance

NamedNext == Boot \/ SignIn \/ EditItem \/ DeleteItem

SpecNamed == InitNamed /\ [][NamedNext]_vars

(* ------------------ handleFocus (sync on window focus) ------------------ *)
FOCUS_BATCH_LIMIT == 10
MaxFocusStored == 11
MaxFocusImages == 1

\* the sign-in sync effect is due: it sets appStatus to 'syncing' before anything else
syncDue == isDbInitialized /\ user /\ ~keysLoadedFromCloud

\* a focus event passes the guard (line 232): the latest 10 local batches and
\* the cloud are read
FocusLoad ==
  /\ ~processing /\ user /\ appStatus = "ready"
  /\ syncPc = "idle" /\ ~syncDue
  /\ focusLocal' = getBatches(batches, FOCUS_BATCH_LIMIT)
  /\ loadAllFromCloud
  /\ syncPc' = "focus"
  /\ UNCHANGED <<storeVars, cloudVars, envVars, uiVars, runVars, keysLoadedFromCloud, obsVars,
                 dbVars, tabVars, appStatus, pageVars, callVars>>

\* lines 245-264: with more cloud batches than local ones read, every cloud
\* batch whose id is not among the local ones read is saved
FocusMerge ==
  /\ syncPc = "focus"
  /\ IF Cardinality(DOMAIN cloudSnap.batches) > Cardinality(focusLocal)
     THEN /\ batches' = saveCloudBatches(batches,
                          [k \in DOMAIN cloudSnap.batches \ focusLocal |-> cloudSnap.batches[k]])
          /\ appStatus' = "ready"
     ELSE UNCHANGED <<batches, appStatus>>
  /\ syncPc' = "idle" /\ cloudSnap' = NoSnap /\ focusLocal' = {}
  /\ UNCHANGED <<items, itemKeyGen, inventory, invKeyGen, cloudVars, envVars, appVars, runVars,
                 keysLoadedFromCloud, obsVars, dbVars, tabVars, pageVars, callVars>>

\* what the signed-in runs behind filledBatches(B, 1) left in the cloud; with
\* lost, the push of the final save of batch 1 never arrived
pushedBatches(B, lost) ==
  [k \in 1..B |->
     IF k = 1 /\ lost THEN [filledBatches(B, 1)[k] EXCEPT !.status = "processing"]
     ELSE filledBatches(B, 1)[k]]

pushedItems(B) ==
  [d \in {itemDocId(filledItems(B, 1)[k]) : k \in 1..B} |->
     LET k == CHOOSE j \in 1..B : itemDocId(filledItems(B, 1)[j]) = d
     IN itemPayload(Without(filledItems(B, 1)[k], {"id"}))]

pushedInventory ==
  [h \in {1} |-> Spread(newInventoryData(1, generateLocalFallback),
                        [first_seen |-> 1, last_seen |-> 1, times_scanned |-> 1])]

\* a first visit, or a device that has run 11 batches signed in
InitFocus ==
  /\ \E B \in {0, MaxFocusStored}, lost \in BOOLEAN :
       /\ B = 0 => ~lost
       /\ batches = filledBatches(B, 1) /\ now = B
       /\ items = (IF B = 0 THEN <<>> ELSE filledItems(B, 1))
       /\ itemKeyGen = B
       /\ inventory = (IF B = 0 THEN <<>> ELSE filledInventory(B, 1))
       /\ invKeyGen = (IF B = 0 THEN 0 ELSE 1)
       /\ cloudBatches = pushedBatches(B, lost)
       /\ cloudItems = (IF B = 0 THEN <<>> ELSE pushedItems(B))
       /\ cloudInv = (IF B = 0 THEN <<>> ELSE pushedInventory)
       /\ disk = (IF B = 0 THEN EmptyDisk ELSE schemaAt(DB_VERSION))
  /\ net = "up" /\ restarts = 0 /\ netChanges = 0 /\ signIns = 0
  /\ supply = MaxFocusImages /\ aiKeys = FALSE
  /\ user = FALSE /\ processing = FALSE /\ isDbInitialized = FALSE
  /\ bootDue = TRUE /\ hasSeenPrompt = FALSE /\ showResumePrompt = FALSE
  /\ incompleteBatch = <<>> /\ isOfflineMode = FALSE
  /\ pc = "idle" /\ runBatch = 0 /\ files = <<>> /\ idx = 0 /\ results = 0
  /\ seenInBatch = <<>> /\ cur = <<>> /\ runUser = FALSE
  /\ keysLoadedFromCloud = FALSE /\ syncPc = "idle" /\ cloudSnap = NoSnap
  /\ pushRuns = 0 /\ race = [pc |-> "idle", key |-> 0, err |-> FALSE] /\ lastSync = <<>>
  /\ SoleInstance

FocusNext ==
  \/ Boot \/ SignIn \/ NetChange \/ RetryConnection
  \/ StartBatch \/ ItemBegin \/ ItemSave \/ ItemBatchUpdate \/ FinishBatch \/ Cancel
  \/ SyncLoad \/ SyncMerge \/ SyncPush
  \/ FocusLoad \/ FocusMerge

SpecFocus == InitFocus /\ [][FocusNext]_vars

(* --------------- initDB: open, migrate, self-heal; sibling tabs --------- *)
\* a close that leaves the connection open
closeConnKeeping(s) == conn[s]

\* db.close() in sibling s: the connection closes once its transactions are done
closeConn(s) ==
  IF conn[s] = "open" THEN (IF s \in busy THEN "closing" ELSE "closed") ELSE conn[s]

\* no sibling connection stands in the way of a version change
siblingsClosed == \A s \in Siblings : conn[s] \in {"none", "closed"}

\* the boot effect calls initDB(): an existing dbPromise is returned as it is
InitDBCall ==
  /\ bootDue /\ initPc = "idle"
  /\ bootDue' = FALSE
  /\ IF dbPromise # "unset"
     THEN /\ initPc' = IF dbPromise = "rejected" THEN "threw" ELSE "returned"
          /\ UNCHANGED <<retryCount, opens, deletions>>
     ELSE /\ initPc' = "open"
          /\ retryCount' = 0 /\ opens' = 0 /\ deletions' = 0
  /\ UNCHANGED <<storeVars, cloudVars, envVars, user, processing, isDbInitialized,
                 hasSeenPrompt, showResumePrompt, incompleteBatch, isOfflineMode,
                 runVars, syncVars, obsVars, disk, dbPromise, stepsRun, dbError, tabVars>>
  /\ UNCHANGED <<focusVars, pageVars, callVars>>

\* dbPromise = openDB(name, 5, ...): an upgrade sends versionchange to every open connection
OpenRequest ==
  /\ initPc = "open"
  /\ initPc' = "wait" /\ dbPromise' = "pending" /\ opens' = opens + 1
  /\ blockedFired' = FALSE
  /\ verchange' = IF disk.version < DB_VERSION THEN {s \in Siblings : conn[s] = "open"} ELSE {}
  /\ UNCHANGED <<storeVars, cloudVars, envVars, appVars, runVars, syncVars, obsVars,
                 disk, retryCount, deletions, stepsRun, dbError, conn, busy, inbox>>
  /\ UNCHANGED <<focusVars, pageVars, callVars>>

\* sibling s: blocking() { dbPromise.then(db => db.close()) }
SiblingBlocking(s) ==
  /\ s \in verchange
  /\ verchange' = verchange \ {s}
  /\ conn' = [conn EXCEPT ![s] = closeConn(s)]
  /\ UNCHANGED <<storeVars, cloudVars, envVars, appVars, runVars, syncVars, obsVars,
                 dbVars, busy, inbox, blockedFired>>
  /\ UNCHANGED <<focusVars, pageVars, callVars>>

\* blocked(): connections are still open (a sibling's handler, and the close it
\* defers through dbPromise.then, may not have run yet); broadcast FORCE_CLOSE_DB
Blocked ==
  /\ initPc = "wait" /\ disk.version < DB_VERSION
  /\ ~siblingsClosed /\ ~blockedFired
  /\ blockedFired' = TRUE
  /\ inbox' = Siblings
  /\ UNCHANGED <<storeVars, cloudVars, envVars, appVars, runVars, syncVars, obsVars,
                 dbVars, conn, busy, verchange>>
  /\ UNCHANGED <<focusVars, pageVars, callVars>>

\* sibling s: dbChannel.onmessage with FORCE_CLOSE_DB
SiblingOnMessage(s) ==
  /\ s \in inbox
  /\ inbox' = inbox \ {s}
  /\ conn' = [conn EXCEPT ![s] = closeConn(s)]
  /\ UNCHANGED <<storeVars, cloudVars, envVars, appVars, runVars, syncVars, obsVars,
                 dbVars, busy, verchange, blockedFired>>
  /\ UNCHANGED <<focusVars, pageVars, callVars>>

\* sibling s: its transaction in flight completes
SiblingTxDone(s) ==
  /\ s \in busy
  /\ busy' = busy \ {s}
  /\ conn' = [conn EXCEPT ![s] = IF @ = "closing" THEN "closed" ELSE @]
  /\ UNCHANGED <<storeVars, cloudVars, envVars, appVars, runVars, syncVars, obsVars,
                 dbVars, verchange, inbox, blockedFired>>
  /\ UNCHANGED <<focusVars, pageVars, callVars>>

\* the open request runs: the upgrade callback, then 'await dbPromise'
OpenRun ==
  /\ initPc = "wait"
  /\ disk.version < DB_VERSION => siblingsClosed
  /\ \E opened \in BOOLEAN :
       LET u == upgrade(disk, disk.version)
       IN IF opened /\ u.ok
          THEN /\ disk' = u.disk /\ stepsRun' = u.steps
               /\ dbPromise' = "open" /\ initPc' = "returned"
          ELSE /\ dbPromise' = "rejected" /\ initPc' = "failed"
               /\ UNCHANGED <<disk, stepsRun>>
  /\ UNCHANGED <<storeVars, cloudVars, envVars, appVars, runVars, syncVars, obsVars,
                 retryCount, opens, deletions, dbError, tabVars>>
  /\ UNCHANGED <<focusVars, pageVars, callVars>>

\* catch (error): deleteDB and retry while retryCount < 2, else fall out of the function
InitCatch ==
  /\ initPc = "failed"
  /\ IF retryCount < MAX_RETRIES
     THEN /\ initPc' = "delete" /\ deletions' = deletions + 1
          /\ verchange' = {s \in Siblings : conn[s] = "open"}
     ELSE /\ initPc' = "returned"
          /\ UNCHANGED <<deletions, verchange>>
  /\ UNCHANGED <<storeVars, cloudVars, envVars, appVars, runVars, syncVars, obsVars,
                 disk, dbPromise, retryCount, opens, stepsRun, dbError,
                 conn, busy, inbox, blockedFired>>
  /\ UNCHANGED <<focusVars, pageVars, callVars>>

\* deleteDB settles (a failure is only logged), then initDB(retryCount + 1)
DeleteRun ==
  /\ initPc = "delete" /\ siblingsClosed
  /\ \E deleted \in BOOLEAN :
       IF deleted
       THEN /\ disk' = EmptyDisk
            /\ batches' = <<>> /\ items' = <<>> /\ itemKeyGen' = 0
            /\ inventory' = <<>> /\ invKeyGen' = 0
       ELSE UNCHANGED <<disk, storeVars>>
  /\ retryCount' = retryCount + 1 /\ initPc' = "open"
  /\ UNCHANGED <<cloudVars, envVars, appVars, runVars, syncVars, obsVars,
                 dbPromise, opens, deletions, stepsRun, dbError, tabVars>>
  /\ UNCHANGED <<focusVars, pageVars, callVars>>

\* the boot effect after 'await initDB()': setIsDbInitialized(true), then the
\* first store read, which awaits dbPromise; the catch sets dbError
BootLoad ==
  /\ initPc \in {"returned", "threw"}
  /\ initPc' = "idle"
  /\ IF initPc = "threw"
     THEN /\ dbError' = TRUE /\ appStatus' = "error"
          /\ UNCHANGED <<isDbInitialized, incompleteBatch, showResumePrompt, hasSeenPrompt>>
     ELSE /\ isDbInitialized' = TRUE
          /\ IF dbPromise = "rejected"
             THEN /\ dbError' = TRUE /\ appStatus' = "error"
                  /\ UNCHANGED <<incompleteBatch, showResumePrompt, hasSeenPrompt>>
             ELSE /\ UNCHANGED dbError
                  /\ appStatus' = IF user THEN appStatus ELSE "ready"
                  /\ LET incomplete == getIncompleteBatches
                     IN IF incomplete # {}
                        THEN /\ incompleteBatch' = <<batches[MinOf(incomplete)]>>
                             /\ showResumePrompt' = (showResumePrompt \/ ~hasSeenPrompt)
                             /\ hasSeenPrompt' = TRUE
                        ELSE UNCHANGED <<incompleteBatch, showResumePrompt, hasSeenPrompt>>
  /\ UNCHANGED <<storeVars, cloudVars, envVars, user, processing, bootDue, isOfflineMode,
                 runVars, syncVars, obsVars, disk, dbPromise, retryCount, opens,
                 deletions, stepsRun, tabVars, focusLocal, pageVars, callVars>>

\* the app loads on a browser that may hold a database of any version, with
\* sibling tabs that may have it open
InitStored ==
  /\ FreshApp /\ supply = 0 /\ aiKeys = FALSE
  /\ disk \in StoredDisks
  /\ dbPromise = "unset" /\ initPc = "idle" /\ retryCount = 0 /\ opens = 0
  /\ deletions = 0 /\ stepsRun = {} /\ dbError = FALSE
  /\ conn \in [Siblings -> {"none", "open"}]
  /\ (\E s \in Siblings : conn[s] = "open") => disk.version > 0
  /\ busy \in SUBSET {s \in Siblings : conn[s] = "open"}
  /\ verchange = {} /\ inbox = {} /\ blockedFired = FALSE
  /\ appStatus = "initializing" /\ focusLocal = {}
  /\ NoPaging /\ updateCalls = <<>>

StoredNext ==
  \/ InitDBCall \/ OpenRequest \/ OpenRun \/ InitCatch \/ DeleteRun \/ BootLoad
  \/ Blocked
  \/ \E s \in Siblings : SiblingBlocking(s) \/ SiblingOnMessage(s) \/ SiblingTxDone(s)
  \/ SignIn \/ Restart

SpecStored == InitStored /\ [][StoredNext]_vars

\* the event loops of all tabs keep running their handlers
SpecStoredFair ==
  /\ SpecStored
  /\ WF_vars(OpenRun) /\ WF_vars(Blocked)
  /\ \A s \in Siblings :
       WF_vars(SiblingBlocking(s)) /\ WF_vars(SiblingOnMessage(s)) /\ WF_vars(SiblingTxDone(s))

(* ============================== claims ================================ *)

\* C1: every batch has processed + failed <= total_images, and a completed
\* batch has processed + failed = total_images.
C1_BatchCounters ==
  \A k \in DOMAIN batches :
    /\ batches[k].processed + batches[k].failed <= batches[k].total_images
    /\ batches[k].status = "completed"
         => batches[k].processed + batches[k].failed = batches[k].total_images

\* items of the running batch that carry fingerprint h, by ascending key
runItemsOf(h) == {k \in getBatchItems(items, runBatch) : items[k].image_hash = h}

inventoryOf(h) == {k \in DOMAIN inventory : inventory[k].image_hash = h}

\* the loop of the run is over and fingerprint h, new in this run, was processed twice or more
sameImageTwice(h) ==
  pc = "final" /\ h \in DOMAIN seenInBatch /\ Cardinality(runItemsOf(h)) >= 2

duplicatesCopyFirst(h) ==
  LET first == MinOf(runItemsOf(h))
  IN \A k \in runItemsOf(h) \ {first} :
       /\ items[k].notes[1] = "[Duplicate]"
       /\ items[first].notes[1] # "[Duplicate]"
       /\ items[k].title = items[first].title
       /\ items[k].type = items[first].type
       /\ items[k].year = items[first].year

interruptedAfterOneOfThree(b) ==
  /\ pc = "idle" /\ restarts > 0
  /\ b \in getIncompleteBatches
  /\ batches[b].total_images = 3
  /\ Cardinality({k \in getBatchItems(items, b) : items[k].status = "completed"}) = 1

\* C3: resumeBatch on a batch interrupted after 1 of 3 items processes the 2
\* remaining images, leaves the completed item alone and ends with
\* status = completed and processed = 3.
C3_ResumeProcessesRemaining ==
  [][\A b \in DOMAIN batches :
       (ResumeBatch /\ incompleteBatch[1].batch_id = b /\ interruptedAfterOneOfThree(b))
         => /\ batches'[b].status = "completed"
            /\ batches'[b].processed = 3
            /\ Cardinality(getBatchItems(items', b)) = 3
            /\ \A k \in getBatchItems(items, b) : items'[k] = items[k]]_vars

\* the loop of a run is still active after the user cancelled it
cancelledRun == pc # "idle" /\ ~processing

\* C7: after a cancel no further image of the run starts processing and the
\* batch keeps status = processing.
C7_CancelStopsLoop ==
  [][cancelledRun =>
       /\ ~(pc = "item" /\ pc' = "save")
       /\ runBatch \in getIncompleteBatches
            => batches'[runBatch].status = "processing"]_vars

\* C4: a pull from the cloud (sign-in merge or manual pull) never replaces or
\* alters a batch the local store already holds, also while a processBatch runs.
C4_PullKeepsLocalBatches ==
  [][(SyncMerge \/ PullMerge)
       => \A k \in DOMAIN batches : batches'[k] = batches[k]]_vars

\* C5: times_scanned of an inventory entry never decreases, and last_seen is
\* never earlier than first_seen.
C5_ScanCountMonotone ==
  /\ [](\A k \in DOMAIN inventory : inventory[k].last_seen >= inventory[k].first_seen)
  /\ [][\A k \in DOMAIN inventory :
          /\ k \in DOMAIN inventory'
          /\ inventory'[k].times_scanned >= inventory[k].times_scanned]_vars

\* C9: the sign-in sync runs the full push of local data only when the cloud
\* holds no batch and no inventory entry, whatever its read returned.
C9_FullPushOnlyIntoEmptyCloud ==
  [][(SyncPush /\ fullPushDue /\ isFirebaseConfigured)
       => (cloudBatches = <<>> /\ cloudInv = <<>>)]_vars

\* C6: addToInventory twice with the same image_hash raises no constraint
\* error and leaves exactly one record with that hash, under the key the
\* first call assigned.
C6_SecondAddIsUpsert ==
  race.pc = "done" =>
    /\ ~race.err
    /\ inventoryOf(RaceHash) = {race.key}

\* the sign-in sync has run to its end in this session
syncCompleted == keysLoadedFromCloud /\ syncPc = "idle"

\* C8: with an empty cloud and reads that succeed, the first sign-in pushes
\* every local batch and every local inventory entry in one full push, and a
\* second sign-in pushes nothing more.
C8_FirstSignInPushesAll ==
  syncCompleted =>
    /\ DOMAIN cloudBatches = DOMAIN batches
    /\ DOMAIN cloudInv = {inventory[k].image_hash : k \in DOMAIN inventory}
    /\ pushRuns = IF batches = <<>> /\ inventory = <<>> THEN 0 ELSE 1

\* the last item handed to syncItemToCloud was oversized and the backend was reachable
oversizedSync ==
  /\ lastSync # <<>> /\ lastSync[1].reachable
  /\ payloadBytes(lastSync[1].item) > SAFETY_MARGIN

\* C10: an item whose payload exceeds the safety margin is written to the
\* cloud with raw_metadata and saved_comps stripped and the marker in notes;
\* the update is never dropped.
C10_OversizeItemStrippedAndWritten ==
  oversizedSync =>
    LET item == lastSync[1].item
    IN /\ itemDocId(item) \in DOMAIN cloudItems
       /\ cloudItems[itemDocId(item)] =
            Spread(Without(item, {"raw_metadata", "saved_comps"}),
                   [notes |-> <<"Metadata stripped (too large)">>])

\* C11: while the offline flag is set no mirror call reaches the cloud (no
\* document is written, a read returns nothing), and within one run of the
\* app only retryConnection clears the flag.
C11_OfflineShortCircuits ==
  [][isOfflineMode =>
       /\ cloudVars' = cloudVars
       /\ cloudSnap' # cloudSnap => cloudSnap' = NoSnap
       /\ isOfflineMode' \/ RetryConnection \/ Restart]_vars

\* syncItemToCloud was called with the flag set and the network back up, and wrote nothing
C11_Witness ==
  /\ lastSync # <<>> /\ lastSync[1].offline /\ net = "up" /\ isOfflineMode
  /\ itemDocId(lastSync[1].item) \notin DOMAIN cloudItems

\* the next step of the running processBatch
RunStep == ItemBegin \/ ItemSave \/ ItemBatchUpdate \/ FinishBatch

\* the steps of the run that end with a push to the mirror (a duplicate makes none)
PushingStep ==
  \/ ItemBegin /\ pc' = "save" /\ ~cur'[1].isDupe
  \/ ItemSave \/ ItemBatchUpdate \/ FinishBatch

\* the run pushes to the mirror and the push cannot succeed
mirrorFails == runUser /\ (isOfflineMode \/ net # "up")

\* C12: whatever the outcome of the remote write, a mirror call returns to
\* processBatch, which goes on with its next step; a step whose push fails
\* leaves every stored item and inventory entry, and every other batch, as
\* they were.
C12_MirrorFailureContained ==
  /\ [](pc # "idle" => ENABLED RunStep)
  /\ [][(PushingStep /\ mirrorFails) =>
          /\ \A k \in DOMAIN items : k \in DOMAIN items' /\ items'[k] = items[k]
          /\ \A k \in DOMAIN inventory : k \in DOMAIN inventory' /\ inventory'[k] = inventory[k]
          /\ \A k \in DOMAIN batches \ {runBatch} :
               k \in DOMAIN batches' /\ batches'[k] = batches[k]]_vars

\* a run over 2 images ended completed in the store while none of its pushes reached the cloud
C12_Witness ==
  \E k \in DOMAIN batches :
    /\ batches[k].status = "completed" /\ batches[k].processed = 2
    /\ Cardinality(getBatchItems(items, k)) = 2
    /\ signIns > 0 /\ pc = "idle" /\ restarts = 0
    /\ cloudBatches = <<>> /\ cloudItems = <<>> /\ cloudInv = <<>>
    /\ isOfflineMode

\* C13 (as stated): initDB makes at most 3 open attempts and 2 deletions, and
\* when the last attempt has failed its caller gets an error, not a normal return.
C13_RetriesThenFatal ==
  /\ opens <= MAX_RETRIES + 1 /\ deletions <= MAX_RETRIES
  /\ initPc = "returned" => dbPromise = "open"

\* C14: resumeBatch on a batch with no pending item starts no processing and
\* touches no item or inventory record; the batch is stored as completed, and
\* the same call made again would store the same record.
C14_ResumeCompletedIsNoOp ==
  [][ResumeBatch =>
       LET finalBatch == Spread(incompleteBatch'[1], [status |-> "completed"])
       IN /\ items' = items /\ itemKeyGen' = itemKeyGen
          /\ inventory' = inventory /\ invKeyGen' = invKeyGen
          /\ runVars' = runVars /\ processing' = processing
          /\ batches'[finalBatch.batch_id].status = "completed"
          /\ saveBatch(batches', finalBatch) = batches']_vars

\* resumeBatch has stored, as completed, a copy of the batch that counts fewer
\* images than the batch has items
C14_Witness ==
  /\ incompleteBatch # <<>> /\ ~showResumePrompt
  /\ LET b == incompleteBatch[1]
     IN /\ batches[b.batch_id] = Spread(b, [status |-> "completed"])
        /\ pendingItems(b.batch_id) = {}
        /\ b.processed < Cardinality(getBatchItems(items, b.batch_id))

\* the run is over 2 images and the AI call for image 2 gave no guess
aiFailedOnSecond ==
  /\ Len(files) = 2 /\ idx = 1 /\ cur # <<>>
  /\ ~cur[1].isDupe /\ cur[1].aiData = generateLocalFallback

\* the stored items of the run for image n that are fallback items
fallbackItems(its, n) ==
  {k \in getBatchItems(its, runBatch) :
     /\ its[k].filename = n /\ its[k].status = "completed"
     /\ its[k].title = "Unidentified Item" /\ its[k].confidence = "10%"
     /\ its[k].raw_metadata.fallback_mode}

C16_FailuresCounted ==
  [][FinishBatch =>
       LET succeeded == Cardinality(getBatchItems(items, runBatch))
       IN /\ idx = Len(files)
          /\ batches'[runBatch].status = "completed"
          /\ batches'[runBatch].processed = succeeded
          /\ batches'[runBatch].failed = Len(files) - succeeded]_vars

\* C17 (as stated): after an image of the run raised, the store holds an item
\* record for that image with status failed.
C17_FailedItemStored ==
  [][ItemRaised =>
       \E k \in getBatchItems(items', runBatch) :
         items'[k].filename = idx + 1 /\ items'[k].status = "failed"]_vars

\* the schema of version 5
fullStores == {"batches", "items", "inventory"}
fullIndexes ==
  {<<"batches", "by-date">>, <<"items", "by-batch">>, <<"items", "by-hash">>,
   <<"inventory", "by-hash">>, <<"inventory", "by-date">>}

\* C18: an open of a database of version v runs exactly the steps above v,
\* every step keeps what the schema holds, the opened database has the three
\* stores and five indexes, and an open of a version 5 database changes nothing.
C18_MigrationAdditive ==
  /\ [][(OpenRun /\ dbPromise' = "open") =>
          /\ stepsRun' = {k \in 1..DB_VERSION : k > disk.version}
          /\ disk.stores \subseteq disk'.stores /\ disk.indexes \subseteq disk'.indexes
          /\ disk'.version = DB_VERSION
          /\ disk'.stores = fullStores /\ disk'.indexes = fullIndexes
          /\ disk.version = DB_VERSION => disk' = disk]_vars
  /\ [](\A k \in 1..DB_VERSION :
          \/ stepThrows(k, disk)
          \/ /\ disk.stores \subseteq migrateStep(k, disk).stores
             /\ disk.indexes \subseteq migrateStep(k, disk).indexes)

\* a database of version 2 has been opened: steps 3, 4 and 5 ran
C18_Witness ==
  /\ dbPromise = "open" /\ stepsRun = {3, 4, 5} /\ opens = 1
  /\ disk.version = DB_VERSION /\ disk.stores = fullStores /\ disk.indexes = fullIndexes

\* C19: a blocked upgrade broadcasts FORCE_CLOSE_DB to every sibling, a sibling
\* that gets it with its connection open closes it, and once the upgrade is
\* blocked all sibling connections end up closed and the open request goes on.
C19_BlockedUpgradeProceeds ==
  /\ [][Blocked => inbox' = Siblings]_vars
  /\ [][\A s \in Siblings :
          (SiblingOnMessage(s) /\ conn[s] = "open") => conn'[s] \in {"closing", "closed"}]_vars
  /\ (initPc = "wait" /\ blockedFired) ~> (siblingsClosed /\ initPc # "wait")

\* the upgrade was blocked by two open siblings, they closed, and the database was opened
C19_Witness ==
  /\ blockedFired /\ dbPromise = "open" /\ opens = 1 /\ stepsRun # {}
  /\ \A s \in Siblings : conn[s] = "closed"
  /\ inbox = {}

\* C20 (as stated): the sign-in merge inserts a cloud inventory entry whose
\* fingerprint no local entry has, and leaves every local entry as it was,
\* also when the cloud holds an entry of the same fingerprint.
C20_MergeKeepsLocalEntry ==
  [][SyncMerge =>
       /\ \A k \in DOMAIN inventory : k \in DOMAIN inventory' /\ inventory'[k] = inventory[k]
       /\ \A h \in DOMAIN cloudSnap.inventory :
            findByImageHash(inventory, h) = <<>> => findByImageHash(inventory', h) # <<>>]_vars

\* C21 (as stated): the focus-triggered sync reads the cloud and writes the
\* store only while no processing loop is active and initDB has completed.
C21_FocusSyncOnlyWhenIdle ==
  [][(FocusLoad \/ FocusMerge) => (pc = "idle" /\ isDbInitialized)]_vars

\* C22 (as stated): when the final save of a run is rejected the batch is
\* stored with status failed, and never is a batch left at status processing
\* with no loop running while the app is still flagged as processing.
C22_LoopFailureMarksBatchFailed ==
  /\ [][FinishBatchFails => batches'[runBatch].status = "failed"]_vars
  /\ [](~(/\ pc = "idle" /\ processing
          /\ \E b \in DOMAIN batches : batches[b].status = "processing"))

\* the step is a duplicate sighting that went through
DuplicateSighting == ItemBegin /\ pc' = "save" /\ cur'[1].isDupe

\* C23: a duplicate sighting whose fingerprint is in the inventory and not in
\* the in-run map adds exactly 1 to times_scanned of that entry and sets its
\* last_seen to the current time, nothing else; a sighting found in the in-run
\* map leaves the inventory as it is.
C23_DuplicateBumpsOnlyFromInventory ==
  [][DuplicateSighting =>
       LET h == files[idx + 1]
       IN IF h \in DOMAIN seenInBatch
          THEN inventory' = inventory
          ELSE LET e == findByImageHash(inventory, h)[1]
               IN /\ DOMAIN inventory' = DOMAIN inventory
                  /\ inventory'[e.id] = Spread(e, [times_scanned |-> e.times_scanned + 1,
                                                   last_seen |-> now])
                  /\ \A k \in DOMAIN inventory \ {e.id} : inventory'[k] = inventory[k]]_vars

\* a later run has seen an image of an earlier batch again: its entry counts 2 scans
C23_Witness ==
  /\ pc = "save" /\ cur # <<>> /\ cur[1].isDupe
  /\ cur[1].hash \notin DOMAIN seenInBatch
  /\ \E k \in DOMAIN inventory :
       /\ inventory[k].image_hash = cur[1].hash
       /\ inventory[k].times_scanned = 2 /\ inventory[k].last_seen = now
       /\ inventory[k].first_seen < now

\* C24 (as stated): the focus-triggered sync saves a cloud batch only when the
\* store holds no batch of that id; no stored batch is overwritten.
C24_FocusSyncInsertsOnly ==
  [][FocusMerge => \A k \in DOMAIN batches : batches'[k] = batches[k]]_vars

\* C25: paging through the inventory in timestamp order, each call given the
\* last_seen of the last entry of the page before, lists no entry twice, and
\* once a page has come back empty every entry is listed.
C25_PagingListsEachEntryOnce ==
  /\ \A i, j \in 1..Len(inventoryShown) : inventoryShown[i] = inventoryShown[j] => i = j
  /\ (lastPage = <<<<>>>>) => {inventoryShown[i] : i \in 1..Len(inventoryShown)} = DOMAIN inventory

\* C26: a merge of remote inventory entries (sign-in merge or manual pull)
\* leaves every local entry whose fingerprint no merged entry has as it was.
C26_MergeSparesOtherFingerprints ==
  [][(SyncMerge \/ PullMerge) =>
       \A k \in DOMAIN inventory :
         inventory[k].image_hash \notin DOMAIN cloudSnap.inventory
           => k \in DOMAIN inventory' /\ inventory'[k] = inventory[k]]_vars

\* C27: once two updateItem calls on one stored item, with updates over
\* different fields, have both returned, the record carries both updates; and
\* a step of a call whose id is not stored leaves the items store as it was.
C27_InterleavedUpdatesBothApply ==
  /\ [](\A c, d \in DOMAIN updateCalls :
          (/\ c # d /\ updateCalls[c].id = updateCalls[d].id
           /\ updateCalls[c].pc = "done" /\ updateCalls[d].pc = "done"
           /\ updateCalls[c].item # <<>> /\ updateCalls[d].item # <<>>
           /\ DOMAIN updateCalls[c].updates \cap DOMAIN updateCalls[d].updates = {})
          => \A u \in {updateCalls[c].updates, updateCalls[d].updates} :
               \A f \in DOMAIN u : items[updateCalls[c].id][f] = u[f])
  /\ [][(UpdateItemGet \/ UpdateItemPut) =>
          \A c \in DOMAIN updateCalls :
            (updateCalls'[c] # updateCalls[c] /\ updateCalls[c].id \notin DOMAIN items)
              => items' = items]_vars

\* C28: isDbInitialized is set only while the store is open: when every
\* initDB attempt has failed the flag stays false, so the sign-in sync, which
\* is guarded by the flag, does not start.
C28_FlagOnlyAfterOpen ==
  /\ isDbInitialized => dbPromise = "open"
  /\ (retryCount = MAX_RETRIES /\ dbPromise = "rejected") => ~syncDue

\* the items of batch b stored with status completed
completedItems(b) ==
  {k \in DOMAIN items : items[k].batch_id = b /\ items[k].status = "completed"}

\* C29: every save of the batch record during a run, the final one included,
\* stores processed = the number of the batch's items stored as completed, and
\* no save of the run lowers the stored counter.
C29_ProcessedCountsStoredItems ==
  [][(ItemBatchUpdate \/ FinishBatch) =>
       /\ batches'[runBatch].processed = Cardinality(completedItems(runBatch))
       /\ runBatch \in DOMAIN batches
            => batches'[runBatch].processed >= batches[runBatch].processed]_vars

\* C30: however often items are pushed, the cloud holds at most one document
\* per item (batch_id and filename), and two stored items that differ in
\* batch_id or filename have different document ids.
C30_OneDocumentPerItem ==
  /\ \A d, e \in DOMAIN cloudItems :
       (/\ cloudItems[d].batch_id = cloudItems[e].batch_id
        /\ cloudItems[d].filename = cloudItems[e].filename) => d = e
  /\ \A j, k \in DOMAIN items :
       (items[j].batch_id # items[k].batch_id \/ items[j].filename # items[k].filename)
         => itemDocId(items[j]) # itemDocId(items[k])
====
